---- MODULE Spec2Model ----
(***************************************************************************)
(* A model of examples/python-client.py: the AGIdentityClient class (five  *)
(* methods, each one HTTP request through the requests library followed by *)
(* response.json()), the callers that share one client instance, and the   *)
(* demonstration driver under `if __name__ == "__main__"`.                 *)
(*                                                                         *)
(* The remote AGIdentity service is not part of the file; it is modelled   *)
(* from the interface the specification gives for it (Service* below).     *)
(***************************************************************************)
EXTENDS Integers, Sequences, FiniteSets, TLC

(***************************************************************************)
(* Bounds of the model.                                                    *)
(***************************************************************************)
NumCallers == 2     \* callers sharing the client instance
NumNonces  == 2     \* distinct randomisations the service's signer may pick
MaxBalance == 1     \* wallet balances range over 0..MaxBalance

Callers  == 1..NumCallers
Nonces   == 1..NumNonces
Balances == 0..MaxBalance

(***************************************************************************)
(* Configuration and the values callers pass.                              *)
(***************************************************************************)
AGID_API == "http://localhost:3000"
ClosedPortUrl == "http://localhost:9"        \* nothing ever listens here
BaseUrls == {AGID_API, ClosedPortUrl}

\* A keyword argument the caller leaves out of the call.
Omitted == "<omitted>"

\* The texts the driver signs and encrypts; callers pass one of them.
SignedMessage == "I am a Python agent with onchain identity"
SecretMemory  == "My secret memory"
Texts == {SignedMessage, SecretMemory}

Protocols      == {"agent message", "agent memory"}
KeyIds         == {"default", "session"}
Counterparties == {"self", "peer"}

\* What a ciphertext argument can be that no encrypt call produced.
MalformedCiphertext ==
    [sealed |-> FALSE, data |-> "", protocol |-> "", keyId |-> "", counterparty |-> ""]

(***************************************************************************)
(* Python keyword defaults: the value of a parameter inside the method.    *)
(***************************************************************************)
Param(given, default) == IF given = Omitted THEN default ELSE given

SignDefaultProtocol == "agent message"
EncryptDefaults ==
    [protocol |-> "agent memory", key_id |-> "default", counterparty |-> "self"]
DecryptDefaultsSignProtocol ==
    [protocol |-> "agent message", key_id |-> "default", counterparty |-> "self"]
DecryptDefaults ==
    [protocol |-> "agent memory", key_id |-> "default", counterparty |-> "self"]

(***************************************************************************)
(* JSON.  A decoded object (a Python dict) is a function from keys to      *)
(* values; its text on the wire is the sequence of its members.  A body    *)
(* that is not JSON has no members to read.                                *)
(***************************************************************************)
KeyOrder ==
    << "message", "data", "ciphertext", "protocol", "keyId", "counterparty",
       "publicKey", "signature", "plaintext", "balance", "error" >>

NotJson == [json |-> FALSE, members |-> << >>]
NoBody  == [json |-> FALSE, members |-> << >>, absent |-> TRUE]

\* json.dumps: the members of the dict, in the dict's order.
JsonDumps(obj) ==
    LET keys == SelectSeq(KeyOrder, LAMBDA k : k \in DOMAIN obj)
    IN  [json |-> TRUE, members |-> [i \in 1..Len(keys) |-> <<keys[i], obj[keys[i]]>>]]

IsJson(text) == text.json

\* json.loads of a JSON object: one entry per key, the last member winning.
JsonLoads(text) ==
    LET ms   == text.members
        keys == {ms[i][1] : i \in 1..Len(ms)}
        last(k) == CHOOSE i \in 1..Len(ms) :
                      /\ ms[i][1] = k
                      /\ \A j \in 1..Len(ms) : ms[j][1] = k => j <= i
    IN  [k \in keys |-> ms[last(k)][2]]

(***************************************************************************)
(* The request each method builds.                                         *)
(***************************************************************************)
\* f"{self.api_url}/api/...": the base URL followed by the path.
EndpointOfGlobal(base, path) == <<AGID_API, path>>
Endpoint(base, path) == <<base, path>>

get_identity_request(base, args) ==
    [method |-> "GET", url |-> Endpoint(base, "/api/identity"), body |-> NoBody]

sign_request(base, args) ==
    [method |-> "POST", url |-> Endpoint(base, "/api/sign"),
     body |-> JsonDumps([message  |-> args.message,
                         protocol |-> Param(args.protocol, SignDefaultProtocol)])]

encrypt_request_swapped(base, args) ==
    [method |-> "POST", url |-> Endpoint(base, "/api/encrypt"),
     body |-> JsonDumps(
        [data         |-> args.data,
         protocol     |-> Param(args.protocol, EncryptDefaults.protocol),
         keyId        |-> Param(args.counterparty, EncryptDefaults.counterparty),
         counterparty |-> Param(args.key_id, EncryptDefaults.key_id)])]
encrypt_request(base, args) ==
    [method |-> "POST", url |-> Endpoint(base, "/api/encrypt"),
     body |-> JsonDumps(
        [data         |-> args.data,
         protocol     |-> Param(args.protocol, EncryptDefaults.protocol),
         keyId        |-> Param(args.key_id, EncryptDefaults.key_id),
         counterparty |-> Param(args.counterparty, EncryptDefaults.counterparty)])]

decrypt_request(base, args) ==
    [method |-> "POST", url |-> Endpoint(base, "/api/decrypt"),
     body |-> JsonDumps(
        [ciphertext   |-> args.ciphertext,
         protocol     |-> Param(args.protocol, DecryptDefaults.protocol),
         keyId        |-> Param(args.key_id, DecryptDefaults.key_id),
         counterparty |-> Param(args.counterparty, DecryptDefaults.counterparty)])]

check_balance_request(base, args) ==
    [method |-> "GET", url |-> Endpoint(base, "/api/balance"), body |-> NoBody]

HttpRequest(base, op, args) ==
    CASE op = "get_identity"  -> get_identity_request(base, args)
      [] op = "sign"          -> sign_request(base, args)
      [] op = "encrypt"       -> encrypt_request(base, args)
      [] op = "decrypt"       -> decrypt_request(base, args)
      [] op = "check_balance" -> check_balance_request(base, args)


(***************************************************************************)
(* The remote service, from its interface table: one route per operation,  *)
(* encryption and decryption bound to the context (protocol, keyId,        *)
(* counterparty), a randomised signer, a stable identity.  A request it    *)
(* cannot serve is answered with a non-success status or a body that is    *)
(* not JSON.                                                               *)
(***************************************************************************)
PublicKey == "02abc"

Seal(d, p, k, c) ==
    [sealed |-> TRUE, data |-> d, protocol |-> p, keyId |-> k, counterparty |-> c]

ErrorObject == [error |-> "request failed"]

Answer(status, obj) ==
    [status |-> status, body |-> JsonDumps(obj), served |-> [has |-> TRUE, obj |-> obj]]
AnswerNotJson(status) ==
    [status |-> status, body |-> NotJson, served |-> [has |-> FALSE]]

\* The service is up but cannot serve this request now.
ServiceFaults == {Answer(500, ErrorObject), AnswerNotJson(502), AnswerNotJson(200)}

\* The service refuses the request (malformed or mismatched parameters).
ServiceRejects == {Answer(400, ErrorObject), AnswerNotJson(400)}

HasFields(req, fields) ==
    /\ IsJson(req.body)
    /\ fields \subseteq DOMAIN JsonLoads(req.body)

ServiceSign(req) ==
    IF ~HasFields(req, {"message", "protocol"}) THEN ServiceRejects
    ELSE LET b == JsonLoads(req.body)
         IN  {Answer(200, [signature |->
                  [signed |-> b.message, protocol |-> b.protocol, nonce |-> n]])
              : n \in Nonces}

ServiceEncrypt(req) ==
    IF ~HasFields(req, {"data", "protocol", "keyId", "counterparty"}) THEN ServiceRejects
    ELSE LET b == JsonLoads(req.body)
         IN  {Answer(200, [ciphertext |->
                  Seal(b.data, b.protocol, b.keyId, b.counterparty)])}

ServiceDecrypt(req) ==
    IF ~HasFields(req, {"ciphertext", "protocol", "keyId", "counterparty"})
    THEN ServiceRejects
    ELSE LET b  == JsonLoads(req.body)
             ct == b.ciphertext
         IN  IF /\ ct.sealed
                /\ ct.protocol = b.protocol
                /\ ct.keyId = b.keyId
                /\ ct.counterparty = b.counterparty
             THEN {Answer(200, [plaintext |-> ct.data])}
             ELSE ServiceRejects

ServiceRoute(req) ==
    CASE req.method = "GET" /\ req.url[2] = "/api/identity" ->
            {Answer(200, [publicKey |-> PublicKey])}
      [] req.method = "GET" /\ req.url[2] = "/api/balance" ->
            {Answer(200, [balance |-> n]) : n \in Balances}
      [] req.method = "POST" /\ req.url[2] = "/api/sign"    -> ServiceSign(req)
      [] req.method = "POST" /\ req.url[2] = "/api/encrypt" -> ServiceEncrypt(req)
      [] req.method = "POST" /\ req.url[2] = "/api/decrypt" -> ServiceDecrypt(req)
      [] OTHER -> {AnswerNotJson(404)}

ServiceResponses(req) == ServiceRoute(req) \cup ServiceFaults

(***************************************************************************)
(* State.                                                                  *)
(***************************************************************************)
VARIABLES
    api_url,     \* self.api_url of the client instance
    listening,   \* the base URLs at which the service accepts connections
    pc,          \* per caller: "idle", "waiting" (in requests.get/post), "done"
    call,        \* per caller: the method invoked and its arguments
    wire,        \* per caller: the HTTP request sent for the invocation
    sent,        \* per caller: HTTP requests sent for the invocation
    response,    \* per caller: what came back from the transport
    served,      \* per caller: the object the service serialised into the body
    outcome,     \* per caller: what the method handed to its caller
    held,        \* per caller: the encrypt result the caller keeps
    line,        \* the driver's position in the script
    issued,      \* the methods the driver has called, in order
    locals,      \* the driver's variables: identity, sig, encrypted, ...
    console,     \* the lines the driver has printed
    exit         \* the driver's process: running, or exited with a status

clientVars == <<api_url, listening>>
callVars   == <<pc, call, wire, sent, response, served, outcome, held>>
driverVars == <<line, issued, locals, console, exit>>
vars == <<api_url, listening, pc, call, wire, sent, response, served, outcome,
          held, line, issued, locals, console, exit>>

NoArgs     == [k \in {} |-> Omitted]
NoCall     == [op |-> "none", args |-> NoArgs]
NoRequest  == [method |-> "none"]
NoResponse == [kind |-> "none"]
NoServed   == [has |-> FALSE]
NoOutcome  == [kind |-> "none"]
NoneHeld   == [has |-> FALSE]
NoLocals   == [k \in {} |-> NoOutcome]

Returned(value) == [kind |-> "returned", value |-> value]
Raised(exc)     == [kind |-> "raised", exc |-> exc]

\* AGIdentityClient(api_url): the instance holds the base URL and nothing else.
ClientInit(urls) ==
    /\ api_url \in urls
    /\ listening \in {{}, {AGID_API}}
    /\ pc       = [c \in Callers |-> "idle"]
    /\ call     = [c \in Callers |-> NoCall]
    /\ wire     = [c \in Callers |-> NoRequest]
    /\ sent     = [c \in Callers |-> 0]
    /\ response = [c \in Callers |-> NoResponse]
    /\ served   = [c \in Callers |-> NoServed]
    /\ outcome  = [c \in Callers |-> NoOutcome]
    /\ held     = [c \in Callers |-> NoneHeld]

DriverIdle ==
    /\ line = <<"none", "">>
    /\ issued = << >>
    /\ locals = NoLocals
    /\ console = << >>
    /\ exit = [exited |-> FALSE]

(***************************************************************************)
(* What callers may invoke.                                                *)
(***************************************************************************)
Opt(S) == S \cup {Omitted}

SignCalls ==
    {[op |-> "sign", args |-> [message |-> m, protocol |-> p]]
     : m \in Texts, p \in Opt(Protocols)}

EncryptCalls ==
    {[op |-> "encrypt",
      args |-> [data |-> d, protocol |-> p, key_id |-> k, counterparty |-> cp]]
     : d \in Texts, p \in Opt(Protocols), k \in Opt(KeyIds), cp \in Opt(Counterparties)}

DecryptCalls(cts) ==
    {[op |-> "decrypt",
      args |-> [ciphertext |-> ct, protocol |-> p, key_id |-> k, counterparty |-> cp]]
     : ct \in cts, p \in Opt(Protocols), k \in Opt(KeyIds), cp \in Opt(Counterparties)}

\* The ciphertexts a caller can pass: the one it holds, or one nobody produced.
Ciphertexts(h) ==
    (IF h.has THEN {h.ciphertext} ELSE {}) \cup {MalformedCiphertext}

Invocations(h) ==
    {[op |-> "get_identity", args |-> NoArgs], [op |-> "check_balance", args |-> NoArgs]}
    \cup SignCalls \cup EncryptCalls \cup DecryptCalls(Ciphertexts(h))

\* The calls of the usage example: every keyword argument left to its default.
AllDefault(inv) ==
    /\ \A k \in DOMAIN inv.args \cap {"protocol", "key_id", "counterparty"} :
          inv.args[k] = Omitted
    /\ inv.op = "sign" => inv.args.message = SignedMessage
    /\ inv.op = "encrypt" => inv.args.data = SecretMemory
    /\ inv.op = "decrypt" => inv.args.ciphertext # MalformedCiphertext

UsageInvocations(h) == {inv \in Invocations(h) : AllDefault(inv)}

(***************************************************************************)
(* The client's methods.  Each is: build the request, requests.get/post    *)
(* (one HTTP request, no timeout), then response.json().                   *)
(***************************************************************************)
\* A method is entered and its request goes out.
InvokeResettingUrl(c, inv) ==
    /\ pc[c] = "idle"
    /\ call' = [call EXCEPT ![c] = inv]
    /\ wire' = [wire EXCEPT ![c] = HttpRequest(api_url, inv.op, inv.args)]
    /\ sent' = [sent EXCEPT ![c] = 1]
    /\ pc' = [pc EXCEPT ![c] = "waiting"]
    /\ response' = [response EXCEPT ![c] = NoResponse]
    /\ served' = [served EXCEPT ![c] = NoServed]
    /\ outcome' = [outcome EXCEPT ![c] = NoOutcome]
    /\ api_url' = AGID_API
    /\ UNCHANGED <<listening, held>>
Invoke(c, inv) ==
    /\ pc[c] = "idle"
    /\ call' = [call EXCEPT ![c] = inv]
    /\ wire' = [wire EXCEPT ![c] = HttpRequest(api_url, inv.op, inv.args)]
    /\ sent' = [sent EXCEPT ![c] = 1]
    /\ pc' = [pc EXCEPT ![c] = "waiting"]
    /\ response' = [response EXCEPT ![c] = NoResponse]
    /\ served' = [served EXCEPT ![c] = NoServed]
    /\ outcome' = [outcome EXCEPT ![c] = NoOutcome]
    /\ UNCHANGED <<api_url, listening, held>>

\* requests.get/post raises on a connection failure; otherwise response.json()
\* decodes the body, whatever the status, and raises when it is not JSON.
DeliverText(resp) ==
    IF resp.kind = "refused" THEN Raised("ConnectionError")
    ELSE Returned(resp.body)
Deliver(resp) ==
    IF resp.kind = "refused" THEN Raised("ConnectionError")
    ELSE IF ~IsJson(resp.body) THEN Raised("JSONDecodeError")
    ELSE Returned(JsonLoads(resp.body))

\* Nothing accepts the connection: requests raises and the method ends.
ConnectFailRetrying(c) ==
    /\ pc[c] = "waiting"
    /\ wire[c].url[1] \notin listening
    /\ sent' = [sent EXCEPT ![c] = IF @ < 3 THEN @ + 1 ELSE @]
    /\ UNCHANGED <<api_url, listening, pc, call, wire, response, served, outcome, held>>
ConnectFail(c) ==
    /\ pc[c] = "waiting"
    /\ wire[c].url[1] \notin listening
    /\ response' = [response EXCEPT ![c] = [kind |-> "refused"]]
    /\ outcome' = [outcome EXCEPT ![c] = Deliver([kind |-> "refused"])]
    /\ pc' = [pc EXCEPT ![c] = "done"]
    /\ UNCHANGED <<api_url, listening, call, wire, sent, served, held>>

\* The service answers; the method decodes the body and ends.
Respond(c) ==
    /\ pc[c] = "waiting"
    /\ wire[c].url[1] \in listening
    /\ \E r \in ServiceResponses(wire[c]) :
          LET resp == [kind |-> "http", status |-> r.status, body |-> r.body]
          IN  /\ response' = [response EXCEPT ![c] = resp]
              /\ served' = [served EXCEPT ![c] = r.served]
              /\ outcome' = [outcome EXCEPT ![c] = Deliver(resp)]
    /\ pc' = [pc EXCEPT ![c] = "done"]
    /\ UNCHANGED <<api_url, listening, call, wire, sent, held>>

\* The caller keeps an encrypt result that has a ciphertext.
Keep(c) ==
    IF /\ call[c].op = "encrypt"
       /\ outcome[c].kind = "returned"
       /\ "ciphertext" \in DOMAIN outcome[c].value
    THEN [has |-> TRUE, args |-> call[c].args,
          ciphertext |-> outcome[c].value["ciphertext"]]
    ELSE held[c]

\* The caller has its result (or its exception) and is free to call again.
Resume(c) ==
    /\ pc[c] = "done"
    /\ held' = [held EXCEPT ![c] = Keep(c)]
    /\ pc' = [pc EXCEPT ![c] = "idle"]
    /\ call' = [call EXCEPT ![c] = NoCall]
    /\ wire' = [wire EXCEPT ![c] = NoRequest]
    /\ sent' = [sent EXCEPT ![c] = 0]
    /\ response' = [response EXCEPT ![c] = NoResponse]
    /\ served' = [served EXCEPT ![c] = NoServed]
    /\ outcome' = [outcome EXCEPT ![c] = NoOutcome]
    /\ UNCHANGED <<api_url, listening>>

(***************************************************************************)
(* One caller using the client, with every argument combination.           *)
(***************************************************************************)
Init == ClientInit(BaseUrls) /\ DriverIdle

CallerInvokes ==
    /\ \E inv \in Invocations(held[1]) : Invoke(1, inv)
    /\ UNCHANGED driverVars
TransportFails == ConnectFail(1) /\ UNCHANGED driverVars
ServiceResponds == Respond(1) /\ UNCHANGED driverVars
CallerResumes == Resume(1) /\ UNCHANGED driverVars

Next ==
    \/ CallerInvokes
    \/ TransportFails
    \/ ServiceResponds
    \/ CallerResumes

Spec == Init /\ [][Next]_vars

(***************************************************************************)
(* The same caller under the scheduling the code relies on: a connection   *)
(* attempt to an address where nothing listens ends (refused, or given up  *)
(* by the operating system).  Nothing makes the service answer: requests   *)
(* is called without a timeout.                                            *)
(***************************************************************************)
FairSpec == Spec /\ WF_vars(TransportFails)

(***************************************************************************)
(* Several callers sharing the client instance, each making the calls of   *)
(* the usage example in any order, interleaved in any way.                 *)
(***************************************************************************)
SharedInvokes(c) == \E inv \in UsageInvocations(held[c]) : Invoke(c, inv)

SharedNext ==
    \E c \in Callers :
        \/ SharedInvokes(c) /\ UNCHANGED driverVars
        \/ ConnectFail(c) /\ UNCHANGED driverVars
        \/ Respond(c) /\ UNCHANGED driverVars
        \/ Resume(c) /\ UNCHANGED driverVars

SharedSpec == Init /\ [][SharedNext]_vars

(***************************************************************************)
(* The demonstration driver: the script under `if __name__ == "__main__"`. *)
(***************************************************************************)
Main == 1

DriverOrder == <<"get_identity", "sign", "encrypt", "decrypt", "check_balance">>

\* Positions in the script: <<"call", m>> at (or inside) the call of method m,
\* <<"print", x>> at the print statement for x.
LineAfter(l) ==
    CASE l = "get_identity"  -> <<"call", "sign">>
      [] l = "sign"          -> <<"call", "encrypt">>
      [] l = "encrypt"       -> <<"call", "decrypt">>
      [] l = "decrypt"       -> <<"call", "check_balance">>
      [] l = "check_balance" -> <<"print", "final">>

Methods == {DriverOrder[i] : i \in 1..Len(DriverOrder)}
AtCall  == line[1] = "call"
AtPrint == line[1] = "print" /\ line[2] \in Methods

\* The call the script makes at each position.
DriverCall(l) ==
    CASE l = "get_identity"  -> [op |-> "get_identity", args |-> NoArgs]
      [] l = "sign"          ->
            [op |-> "sign", args |-> [message |-> SignedMessage, protocol |-> Omitted]]
      [] l = "encrypt"       ->
            [op |-> "encrypt",
             args |-> [data |-> SecretMemory, protocol |-> Omitted,
                       key_id |-> Omitted, counterparty |-> Omitted]]
      [] l = "decrypt"       ->
            [op |-> "decrypt",
             args |-> [ciphertext |-> locals["encrypted"]["ciphertext"],
                       protocol |-> Omitted,
                       key_id |-> "default", counterparty |-> Omitted]]
      [] l = "check_balance" -> [op |-> "check_balance", args |-> NoArgs]

\* The variable each result is assigned to.
LocalName(l) ==
    CASE l = "get_identity"  -> "identity"
      [] l = "sign"          -> "sig"
      [] l = "encrypt"       -> "encrypted"
      [] l = "decrypt"       -> "decrypted"
      [] l = "check_balance" -> "balance"

Assign(name, value) ==
    [k \in DOMAIN locals \cup {name} |-> IF k = name THEN value ELSE locals[k]]

\* The field of the result the script prints after each call.
PrintedField(l) ==
    CASE l = "get_identity"  -> "publicKey"
      [] l = "sign"          -> "signature"
      [] l = "encrypt"       -> "ciphertext"
      [] l = "decrypt"       -> "plaintext"
      [] l = "check_balance" -> "balance"

Running == [exited |-> FALSE]
Exited(status, error) == [exited |-> TRUE, status |-> status, error |-> error]

\* agent = AGIdentityClient(): the default base URL.
DriverInit ==
    /\ ClientInit({AGID_API})
    /\ line = <<"print", "banner">>
    /\ issued = << >>
    /\ locals = NoLocals
    /\ console = << >>
    /\ exit = Running

DriverStarts ==
    /\ ~exit.exited
    /\ line = <<"print", "banner">>
    /\ console' = Append(console, "banner")
    /\ line' = <<"call", "get_identity">>
    /\ UNCHANGED <<clientVars, callVars, issued, locals, exit>>

DriverCalls ==
    /\ ~exit.exited
    /\ AtCall
    /\ Invoke(Main, DriverCall(line[2]))
    /\ issued' = Append(issued, line[2])
    /\ UNCHANGED <<line, locals, console, exit>>

\* An exception leaves the script uncaught: traceback, exit status 1.
DriverAbortsSwallowing ==
    /\ ~exit.exited
    /\ pc[Main] = "done"
    /\ outcome[Main].kind = "raised"
    /\ console' = Append(console, "error")
    /\ line' = LineAfter(line[2])
    /\ Resume(Main)
    /\ UNCHANGED <<issued, locals, exit>>
DriverAborts ==
    /\ ~exit.exited
    /\ pc[Main] = "done"
    /\ outcome[Main].kind = "raised"
    /\ exit' = Exited(1, outcome[Main].exc)
    /\ UNCHANGED <<clientVars, callVars, line, issued, locals, console>>

\* name = agent.method(...): the result is bound to the script's variable.
DriverAssigns ==
    /\ ~exit.exited
    /\ AtCall
    /\ pc[Main] = "done"
    /\ outcome[Main].kind = "returned"
    /\ locals' = Assign(LocalName(line[2]), outcome[Main].value)
    /\ line' = <<"print", line[2]>>
    /\ Resume(Main)
    /\ UNCHANGED <<issued, console, exit>>

\* print(f"... {name['field']} ...") on a result without the field: KeyError,
\* uncaught.
DriverMissesField ==
    /\ ~exit.exited
    /\ AtPrint
    /\ PrintedField(line[2]) \notin DOMAIN locals[LocalName(line[2])]
    /\ exit' = Exited(1, "KeyError")
    /\ UNCHANGED <<clientVars, callVars, line, issued, locals, console>>

\* The line is printed (console records which line, not its text, which is
\* the field cut to its first 32 or 64 characters); the script moves on to
\* its next call.
DriverPrints ==
    /\ ~exit.exited
    /\ AtPrint
    /\ PrintedField(line[2]) \in DOMAIN locals[LocalName(line[2])]
    /\ console' = Append(console, line[2])
    /\ line' = LineAfter(line[2])
    /\ UNCHANGED <<clientVars, callVars, issued, locals, exit>>

\* The last print; the script ends and the process exits 0.
DriverFinishes ==
    /\ ~exit.exited
    /\ line = <<"print", "final">>
    /\ console' = Append(console, "final")
    /\ line' = <<"end", "">>
    /\ exit' = Exited(0, "none")
    /\ UNCHANGED <<clientVars, callVars, issued, locals>>

DriverNext ==
    \/ DriverStarts
    \/ DriverCalls
    \/ ConnectFail(Main) /\ UNCHANGED driverVars
    \/ Respond(Main) /\ UNCHANGED driverVars
    \/ DriverAborts
    \/ DriverAssigns
    \/ DriverMissesField
    \/ DriverPrints
    \/ DriverFinishes

DriverSpec == DriverInit /\ [][DriverNext]_vars

(***************************************************************************)
(* Properties.                                                             *)
(***************************************************************************)
\* The specification's error taxonomy, for the exceptions the code raises.
ErrorKind(exc) ==
    CASE exc = "ConnectionError" -> "NetworkError"
      [] exc = "JSONDecodeError" -> "ServiceError"
      [] OTHER -> "other"

SuccessStatus(status) == 200 <= status /\ status < 300

InFlight(c) == pc[c] \in {"waiting", "done"}

\* The context a call names, with the documented defaults for what it omits.
DocumentedContext(args) ==
    [protocol     |-> IF args.protocol = Omitted THEN "agent memory" ELSE args.protocol,
     keyId        |-> IF args.key_id = Omitted THEN "default" ELSE args.key_id,
     counterparty |-> IF args.counterparty = Omitted THEN "self" ELSE args.counterparty]

\* The service answered, and the answer is not one of its failures to serve.
Served(c) ==
    /\ response[c].kind = "http"
    /\ \A f \in ServiceFaults :
          ~(response[c].status = f.status /\ response[c].body = f.body)

\* Caller c is decrypting the ciphertext it got from its last encrypt call.
DecryptsHeld(c) ==
    /\ InFlight(c)
    /\ call[c].op = "decrypt"
    /\ held[c].has
    /\ call[c].args.ciphertext = held[c].ciphertext

\* C1: when the service answers with a non-success status or with a body that
\* is not JSON, the operation fails with ServiceError and returns no value.
BadResponseFailsWithServiceError ==
    \A c \in Callers :
        ( /\ pc[c] = "done"
          /\ response[c].kind = "http"
          /\ ~SuccessStatus(response[c].status) \/ ~IsJson(response[c].body) )
        => /\ outcome[c].kind = "raised"
           /\ ErrorKind(outcome[c].exc) = "ServiceError"

\* C2: with a base URL at which nothing listens, every operation that has
\* been invoked ends, and ends by failing with NetworkError.
UnreachableFailsWithNetworkError ==
    /\ [](\A c \in Callers :
            (pc[c] = "done" /\ api_url \notin listening)
            => /\ outcome[c].kind = "raised"
               /\ ErrorKind(outcome[c].exc) = "NetworkError")
    /\ \A op \in {"get_identity", "sign", "encrypt", "decrypt", "check_balance"} :
          (api_url \notin listening /\ pc[1] = "waiting" /\ call[1].op = op)
          ~> (pc[1] = "done" /\ call[1].op = op /\ outcome[1].kind = "raised")

UnreachableCallFailed ==
    /\ api_url \notin listening
    /\ pc[1] = "done"
    /\ call[1].op = "decrypt"
    /\ outcome[1] = Raised("ConnectionError")

\* The interface table: the body and the path of each operation's request.
ExpectedBody(op, args) ==
    CASE op = "sign" ->
            [message  |-> args.message,
             protocol |-> IF args.protocol = Omitted THEN "agent message"
                          ELSE args.protocol]
      [] op = "encrypt" ->
            [data         |-> args.data,
             protocol     |-> DocumentedContext(args).protocol,
             keyId        |-> DocumentedContext(args).keyId,
             counterparty |-> DocumentedContext(args).counterparty]
      [] op = "decrypt" ->
            [ciphertext   |-> args.ciphertext,
             protocol     |-> DocumentedContext(args).protocol,
             keyId        |-> DocumentedContext(args).keyId,
             counterparty |-> DocumentedContext(args).counterparty]

ExpectedPath(op) ==
    CASE op = "get_identity"  -> "/api/identity"
      [] op = "sign"          -> "/api/sign"
      [] op = "encrypt"       -> "/api/encrypt"
      [] op = "decrypt"       -> "/api/decrypt"
      [] op = "check_balance" -> "/api/balance"

\* C3: each operation sends the request of the interface table to the
\* configured base URL, with exactly the table's body fields, each carrying
\* the caller's argument or the documented default.
RequestMatchesInterface ==
    \A c \in Callers :
        InFlight(c) =>
            /\ wire[c].url = <<api_url, ExpectedPath(call[c].op)>>
            /\ IF call[c].op \in {"get_identity", "check_balance"}
               THEN /\ wire[c].method = "GET"
                    /\ wire[c].body = NoBody
               ELSE /\ wire[c].method = "POST"
                    /\ IsJson(wire[c].body)
                    /\ Len(wire[c].body.members) = Cardinality(DOMAIN ExpectedBody(call[c].op, call[c].args))
                    /\ JsonLoads(wire[c].body) = ExpectedBody(call[c].op, call[c].args)

EncryptRequestSent ==
    /\ api_url = ClosedPortUrl
    /\ pc[1] = "waiting"
    /\ call[1].op = "encrypt"
    /\ call[1].args.key_id = "session"
    /\ call[1].args.protocol = Omitted
    /\ JsonLoads(wire[1].body).keyId = "session"

\* C4: decrypting, in the context (p, k, c), the ciphertext that encrypt
\* returned for a text d in the same context returns a result whose
\* plaintext is d.
RoundTrip ==
    \A c \in Callers :
        ( /\ pc[c] = "done"
          /\ DecryptsHeld(c)
          /\ DocumentedContext(call[c].args) = DocumentedContext(held[c].args)
          /\ Served(c) )
        => /\ outcome[c].kind = "returned"
           /\ "plaintext" \in DOMAIN outcome[c].value
           /\ outcome[c].value["plaintext"] = held[c].args.data

RoundTripDone ==
    /\ pc[1] = "done"
    /\ DecryptsHeld(1)
    /\ call[1].args.key_id = "session"
    /\ call[1].args.counterparty = "peer"
    /\ DocumentedContext(call[1].args) = DocumentedContext(held[1].args)
    /\ outcome[1] = Returned([plaintext |-> SecretMemory])

\* C5: decrypting a ciphertext in a context that differs from the one it was
\* encrypted in fails with ServiceError and returns no result object.
MismatchFailsWithServiceError ==
    \A c \in Callers :
        ( /\ pc[c] = "done"
          /\ DecryptsHeld(c)
          /\ DocumentedContext(call[c].args) # DocumentedContext(held[c].args)
          /\ response[c].kind = "http" )
        => /\ outcome[c].kind = "raised"
           /\ ErrorKind(outcome[c].exc) = "ServiceError"

\* C6: the value handed to the caller is the JSON object the service
\* returned in its successful response, field for field.
ResponsePassThrough ==
    \A c \in Callers :
        ( /\ pc[c] = "done"
          /\ response[c].kind = "http"
          /\ SuccessStatus(response[c].status)
          /\ served[c].has )
        => outcome[c] = Returned(served[c].obj)

IdentityPassedThrough ==
    /\ pc[1] = "done"
    /\ call[1].op = "get_identity"
    /\ served[1] = [has |-> TRUE, obj |-> [publicKey |-> "02abc"]]
    /\ outcome[1].kind = "returned"
    /\ outcome[1].value["publicKey"] = "02abc"

\* C7: an invocation sends exactly one HTTP request, whether it succeeds or
\* fails.
NoRetry ==
    \A c \in Callers :
        /\ sent[c] <= 1
        /\ InFlight(c) => sent[c] = 1

FailedWithoutRetry ==
    /\ pc[1] = "done"
    /\ outcome[1].kind = "raised"
    /\ response[1].kind = "http"
    /\ sent[1] = 1

\* C8: no operation changes the base URL, and under any interleaving of
\* callers sharing the instance each call's request is determined by its own
\* arguments and its result by the answer to its own request.
StatelessUnderSharing ==
    /\ [][api_url' = api_url]_vars
    /\ [](\A c \in Callers :
            /\ InFlight(c) =>
                  wire[c] = HttpRequest(api_url, call[c].op, call[c].args)
            /\ pc[c] = "done" => outcome[c] = Deliver(response[c]))

CallsInterleaved ==
    /\ api_url = ClosedPortUrl
    /\ pc[1] = "waiting"
    /\ call[1].op = "sign"
    /\ pc[2] = "done"
    /\ call[2].op = "encrypt"

IsPrefix(s, t) == Len(s) <= Len(t) /\ \A i \in 1..Len(s) : s[i] = t[i]

DefaultsOf(args) ==
    /\ args.protocol = Omitted
    /\ args.counterparty = Omitted

\* C10: a decrypt call with defaults (or with key_id "default") on a
\* ciphertext from an encrypt call with defaults carries the protocol,
\* keyId and counterparty that the encrypt request carried: "agent memory",
\* "default", "self".
DefaultContextsAgree ==
    \A c \in Callers :
        ( /\ DecryptsHeld(c)
          /\ DefaultsOf(held[c].args) /\ held[c].args.key_id = Omitted
          /\ DefaultsOf(call[c].args) /\ call[c].args.key_id \in {Omitted, "default"} )
        => LET e == JsonLoads(encrypt_request(api_url, held[c].args).body)
               d == JsonLoads(wire[c].body)
           IN  \A f \in {"protocol", "keyId", "counterparty"} :
                  /\ d[f] = e[f]
                  /\ d[f] = [protocol |-> "agent memory", keyId |-> "default",
                             counterparty |-> "self"][f]

DefaultDecryptSent ==
    /\ pc[1] = "waiting"
    /\ DecryptsHeld(1)
    /\ DefaultsOf(held[1].args) /\ held[1].args.key_id = Omitted
    /\ DefaultsOf(call[1].args) /\ call[1].args.key_id = "default"

====
